---- MODULE Spec2Model ----
(***************************************************************************)
(* Blender MCP bridge: the add-on's socket server (addon/__init__.py) and  *)
(* the adapter's client (blender_mcp_server/server.py).                    *)
(*                                                                         *)
(* A byte stream is a sequence of lexemes: the newline, a whitespace byte, *)
(* the JSON punctuation, one lexeme per object member, a lexeme for a JSON *)
(* value that is no object, a lexeme of text that is no JSON, and a byte   *)
(* that is no UTF-8.                                                       *)
(***************************************************************************)
EXTENDS Integers, Sequences, FiniteSets, TLC

(***************************************************************************)
(* Bounds of the model.                                                    *)
(***************************************************************************)
\* frames a peer writes on one served connection
MaxFrames == 2
\* characters of a file path handed to the path check
MaxPathLen == 5
\* tasks that call send_command on one BlenderConnection
NumTasks == 2
\* send_command calls over the life of the BlenderConnection
MaxCalls == 3
\* connections asyncio.open_connection opens for it
MaxConnections == 2
\* responses longer than the StreamReader limit
MaxLongLines == 1
\* accept-loop threads, and listening sockets, one server object may create
MaxLoops == 2
\* frames written to the connections of the life-cycle specification, in all
MaxLifeFrames == 1

(***************************************************************************)
(* Sequences.                                                              *)
(***************************************************************************)
Range(s) == {s[i] : i \in 1..Len(s)}

IsPrefix(p, s) == Len(p) <= Len(s) /\ SubSeq(s, 1, Len(p)) = p

\* index of the first x in s, 0 when there is none (bytes.find)
RECURSIVE FindFrom(_, _, _)
FindFrom(s, x, i) ==
    IF i > Len(s) THEN 0
    ELSE IF s[i] = x THEN i
    ELSE FindFrom(s, x, i + 1)

Find(s, x) == FindFrom(s, x, 1)

(***************************************************************************)
(* Lexemes of the wire.                                                    *)
(***************************************************************************)
NL == "\n"
SP == " "

None == "None"

\* "id": <value> members and the value each carries
IdMember == [i1 |-> "1", i2 |-> "2"]

\* "command": <value> members; cL carries a JSON array, which Python
\* decodes to a list (unhashable)
UnhashableList == "[list]"
CommandMember ==
    [cR |-> "scene.get_info", cM |-> "object.delete",
     cU |-> "bogus.cmd", cL |-> UnhashableList]

Members == DOMAIN IdMember \cup DOMAIN CommandMember

\* a JSON document that is no object (0, null, [], "x")
Scalar == "0"
\* text that is no JSON
Garbage == "x"
\* a byte that is no UTF-8 (0xff)
BadByte == "#"

(***************************************************************************)
(* json.loads(line), for a line of bytes.                                  *)
(***************************************************************************)
Absent == "<absent>"

\* dict.get(key, default)
Get(d, key, default) == IF d[key] = Absent THEN default ELSE d[key]

\* the last member of toks that is in keys decides (a repeated key: the
\* last one wins), Absent when there is none
RECURSIVE LastMember(_, _, _)
LastMember(toks, table, i) ==
    IF i = 0 THEN Absent
    ELSE IF toks[i] \in DOMAIN table THEN table[toks[i]]
    ELSE LastMember(toks, table, i - 1)

JsonLoads(line) ==
    LET toks == SelectSeq(line, LAMBDA t : t # SP)
        inner == SubSeq(toks, 2, Len(toks) - 1)
    IN  IF BadByte \in Range(line)
        THEN [kind |-> "UnicodeDecodeError", doc |-> None]
        ELSE IF toks = <<Scalar>>
        THEN [kind |-> "value", doc |-> Scalar]
        ELSE IF /\ Len(toks) >= 2
                /\ toks[1] = "{"
                /\ toks[Len(toks)] = "}"
                /\ Range(inner) \subseteq Members
        THEN [kind |-> "dict",
              doc |-> [id |-> LastMember(inner, IdMember, Len(inner)),
                       command |-> LastMember(inner, CommandMember, Len(inner))]]
        ELSE [kind |-> "JSONDecodeError", doc |-> None]

(***************************************************************************)
(* Process-wide security configuration and the server object.              *)
(***************************************************************************)
VARIABLES
    SAFE_MODE,       \* addon SAFE_MODE
    ALLOWED_PATHS,   \* addon ALLOWED_PATHS: a sequence of paths
    TOOL_WHITELIST,  \* [configured, names]: configured = FALSE is None
    running,         \* BlenderMCPServer._running
    server_socket,   \* BlenderMCPServer._server_socket: a socket, or 0 for None
    thread,          \* BlenderMCPServer._thread: an accept-loop thread, or 0
    sock_state,      \* each socket: "none", "unbound", "open" (listening), "closed"
    loop_pc,         \* where each accept-loop thread is in _accept_loop
    loop_sock,       \* the socket each accept-loop thread called accept() on
    stop_pc,         \* where a stop() under way is: "idle", "close", "join"
    last_call,       \* how the last start() or stop() call ended
    blend_file,      \* bpy.data.filepath
    checked_path,    \* the argument of the last _validate_filepath call
    verdict,         \* how it ended: "none", "returned", "PermissionError"
    check_pc,        \* per thread: where its _validate_filepath call is
    check_arg,       \* per thread: the filepath of that call
    handlers         \* CommandHandler._handlers: command name -> bound method

\* the adapter's BlenderConnection and the tasks that use it
VARIABLES
    reader,     \* _reader: a connection, or 0 for None
    writer,     \* _writer: a connection, or 0 for None
    lock,       \* _lock: the task that holds it, or 0
    waiters,    \* the tasks suspended in _lock.acquire(), first come first
    task,       \* each task's place in send_command, and its call's data
    calls,      \* send_command calls started so far
    opened,     \* connections opened so far
    c2s,        \* per connection: request frames written, not yet handled
    s2c,        \* per connection: response bytes sent, not yet read
    far_end,    \* per connection: "open", or "closed" by the add-on
    long_lines, \* responses sent that exceed the StreamReader limit
    sock        \* per connection: the client's socket, "none", "open", "closed"

VARIABLES
    pc,        \* where each connection's thread is
    peer,      \* the far end: "open", or "closed" once it shut down
    written,   \* frames the far end has written
    pending,   \* bytes written by the far end and not received yet
    buffer,    \* _handle_client's buffer
    response,  \* the response about to be written
    out,       \* the response frames written, in order
    stream,    \* every byte conn.recv has returned, in order
    carried,   \* the last conn.recv extended bytes left in the buffer
    log,       \* what was done with each line passed to json.loads
    closed_by  \* why _handle_client left its loop

\* the adapter's tools
VARIABLES
    tool_call, \* the last tool invoked, and what it passed to send_command
    lifespan   \* blender_lifespan: "starting", "serving", "closing", "ended"

server_vars ==
    <<running, server_socket, thread, sock_state, loop_pc, loop_sock, stop_pc,
      last_call>>
config_vars == <<SAFE_MODE, ALLOWED_PATHS, TOOL_WHITELIST, handlers>>
conn_vars ==
    <<pc, peer, written, pending, buffer, response, out, stream, carried, log,
      closed_by>>

gate_vars == <<blend_file, checked_path, verdict, check_pc, check_arg>>
client_vars ==
    <<reader, writer, lock, waiters, task, calls, opened, c2s, s2c, far_end,
      long_lines, sock>>
tool_vars == <<tool_call, lifespan>>

(***************************************************************************)
(* CommandHandler: the registry and handle().                              *)
(***************************************************************************)
\* the names _register_builtins binds
Handlers ==
    {"scene.get_info", "scene.list_objects", "object.get_transform",
     "object.get_hierarchy", "material.list", "object.create_mesh",
     "object.delete", "object.translate", "object.rotate", "object.scale",
     "object.duplicate", "material.create", "material.assign",
     "material.set_color", "material.set_texture", "render.still",
     "render.animation", "export.gltf", "export.obj", "export.fbx",
     "history.undo", "history.redo"}

Hashable(command) == command # UnhashableList

\* the dict _register_builtins leaves in self._handlers: each name bound to
\* the method of its own
Registered == [name \in Handlers |-> <<"method", name>>]

\* a lookup that binds a missing name, as dict.setdefault(command) does
HandlersGet_SetDefault(command) ==
    IF Hashable(command) /\ command \notin DOMAIN handlers
    THEN [name \in DOMAIN handlers \cup {command} |->
            IF name = command THEN <<"None">> ELSE handlers[name]]
    ELSE handlers

\* self._handlers after self._handlers.get(command): dict.get adds no key
HandlersGet(command) == handlers

MUTATION_COMMANDS ==
    {"object.create_mesh", "object.delete", "object.translate",
     "object.rotate", "object.scale", "object.duplicate", "material.create",
     "material.assign", "material.set_color", "material.set_texture"}

\* the command names a request can carry
CommandNames == {CommandMember[m] : m \in DOMAIN CommandMember} \cup {""}

\* the whitelist test of handle(): TRUE when the command is refused
WhitelistDenies(command) ==
    TOOL_WHITELIST.configured /\ command \notin TOOL_WHITELIST.names

\* handle() resolving the handler before it tests the whitelist
Handle_LookupFirst(command, handlerOk) ==
    IF ~Hashable(command)
    THEN [kind |-> "TypeError", consulted |-> TRUE, ran |-> FALSE]
    ELSE IF command \notin DOMAIN handlers
    THEN [kind |-> "ValueError", consulted |-> TRUE, ran |-> FALSE]
    ELSE IF WhitelistDenies(command)
    THEN [kind |-> "PermissionError", consulted |-> TRUE, ran |-> FALSE]
    ELSE [kind |-> IF handlerOk THEN "result" ELSE "HandlerError",
          consulted |-> TRUE, ran |-> TRUE]

\* handle() without "if not handler": it calls what the lookup returned
Handle_NoUnknownCheck(command, handlerOk) ==
    IF ~Hashable(command)
    THEN [kind |-> "TypeError", consulted |-> ~TOOL_WHITELIST.configured,
          ran |-> FALSE]
    ELSE IF WhitelistDenies(command)
    THEN [kind |-> "PermissionError", consulted |-> FALSE, ran |-> FALSE]
    ELSE IF command \notin DOMAIN handlers
    THEN [kind |-> "TypeError", consulted |-> TRUE, ran |-> FALSE]
    ELSE [kind |-> IF handlerOk THEN "result" ELSE "HandlerError",
          consulted |-> TRUE, ran |-> TRUE]

\* handle(command, params). The handler bodies are host operations: a body
\* returns a result (handlerOk) or raises. consulted: self._handlers.get was
\* called; ran: a handler body was entered.
Handle(command, handlerOk) ==
    IF ~Hashable(command)
    THEN \* set membership, or dict.get, hashes the command
         [kind |-> "TypeError", consulted |-> ~TOOL_WHITELIST.configured,
          ran |-> FALSE]
    ELSE IF WhitelistDenies(command)
    THEN [kind |-> "PermissionError", consulted |-> FALSE, ran |-> FALSE]
    ELSE IF command \notin DOMAIN handlers
    THEN [kind |-> "ValueError", consulted |-> TRUE, ran |-> FALSE]
    ELSE [kind |-> IF handlerOk THEN "result" ELSE "HandlerError",
          consulted |-> TRUE, ran |-> TRUE]

\* the error string of each failure: str(e)
ErrorMessage(kind, command) ==
    CASE kind = "PermissionError" -> <<"not in the tool whitelist", command>>
      [] kind = "ValueError" -> <<"Unknown command", command>>
      [] kind = "TypeError" -> <<"unhashable type", "list">>
      [] kind = "UndoPushError" -> <<"undo_push failed", command>>
      [] OTHER -> <<"handler failed", command>>

\* a request.get with the wrong key: every response carries id null
RequestId_WrongKey(request) == Get(request, "command", None)

\* req_id = request.get("id")
RequestId(request) == Get(request, "id", None)

\* the undo push made after handle() returned
HostCalls_PushAfter(command, undoOk, h) ==
    (IF h.ran THEN <<"handler">> ELSE <<>>)
        \o (IF command \in MUTATION_COMMANDS THEN <<"undo_push">> ELSE <<>>)

\* the host operations the try block of _process_request asks for, in order:
\* bpy.ops.ed.undo_push when the command is in MUTATION_COMMANDS, then the
\* handler body when the push returned and handle() (outcome h) reaches it
HostCalls(command, undoOk, h) ==
    IF command \in MUTATION_COMMANDS
    THEN <<"undo_push">> \o (IF undoOk /\ h.ran THEN <<"handler">> ELSE <<>>)
    ELSE IF h.ran THEN <<"handler">> ELSE <<>>

\* _process_request(request). undoOk: bpy.ops.ed.undo_push returns (or
\* raises). The outcome: the response, and what was done on the way.
ProcessRequest(request, undoOk, handlerOk) ==
    LET req_id == RequestId(request)
        command == Get(request, "command", "")
        failure(kind, pushed, h) ==
            [response |-> [id |-> req_id, success |-> FALSE,
                           error |-> ErrorMessage(kind, command)],
             command |-> command, kind |-> kind,
             undo_push |-> pushed, consulted |-> h.consulted, ran |-> h.ran,
             steps |-> IF Hashable(command)
                       THEN HostCalls(command, undoOk, Handle(command, handlerOk))
                       ELSE <<>>]
        nothing == [consulted |-> FALSE, ran |-> FALSE]
    IN  IF ~Hashable(command)
        THEN \* command in self.MUTATION_COMMANDS raises TypeError
             failure("TypeError", FALSE, nothing)
        ELSE LET pushed == command \in MUTATION_COMMANDS
                 h == Handle(command, handlerOk)
             IN  IF pushed /\ ~undoOk
                 THEN failure("UndoPushError", TRUE, nothing)
                 ELSE IF h.kind = "result"
                 THEN [response |-> [id |-> req_id, success |-> TRUE,
                                     result |-> <<"result of", command>>],
                       command |-> command, kind |-> "result",
                       undo_push |-> pushed,
                       consulted |-> h.consulted, ran |-> h.ran,
                       steps |-> HostCalls(command, undoOk, h)]
                 ELSE failure(h.kind, pushed, h)


(***************************************************************************)
(* Paths are strings: sequences of characters.  os.path on POSIX.          *)
(***************************************************************************)
Sep == "/"

PathChars == {Sep, ".", "p", "o"}

\* os.getcwd()
Cwd == <<Sep, "p">>

StartsWith(s, prefix) == IsPrefix(prefix, s)

\* path.split("/")
RECURSIVE SplitPath(_)
SplitPath(path) ==
    LET i == Find(path, Sep)
    IN  IF i = 0 THEN <<path>>
        ELSE <<SubSeq(path, 1, i - 1)>> \o SplitPath(SubSeq(path, i + 1, Len(path)))

\* "/".join(comps)
RECURSIVE JoinComps(_)
JoinComps(comps) ==
    IF comps = <<>> THEN <<>>
    ELSE IF Len(comps) = 1 THEN comps[1]
    ELSE comps[1] \o <<Sep>> \o JoinComps(Tail(comps))

\* the loop of os.path.normpath over the components
RECURSIVE NormComps(_, _, _)
NormComps(comps, new_comps, initial_slashes) ==
    IF comps = <<>> THEN new_comps
    ELSE LET comp == Head(comps)
             n == Len(new_comps)
         IN  IF comp = <<>> \/ comp = <<".">>
             THEN NormComps(Tail(comps), new_comps, initial_slashes)
             ELSE IF \/ comp # <<".", ".">>
                     \/ (initial_slashes = 0 /\ n = 0)
                     \/ (n > 0 /\ new_comps[n] = <<".", ".">>)
             THEN NormComps(Tail(comps), Append(new_comps, comp), initial_slashes)
             ELSE IF n > 0
             THEN NormComps(Tail(comps), SubSeq(new_comps, 1, n - 1), initial_slashes)
             ELSE NormComps(Tail(comps), new_comps, initial_slashes)

\* os.path.normpath(path)
Normpath(path) ==
    IF path = <<>> THEN <<".">>
    ELSE LET initial_slashes ==
                 IF ~StartsWith(path, <<Sep>>) THEN 0
                 ELSE IF StartsWith(path, <<Sep, Sep>>) /\ ~StartsWith(path, <<Sep, Sep, Sep>>)
                 THEN 2
                 ELSE 1
             joined == JoinComps(NormComps(SplitPath(path), <<>>, initial_slashes))
             lead == [k \in 1..initial_slashes |-> Sep]
         IN  IF lead \o joined = <<>> THEN <<".">> ELSE lead \o joined

\* os.path.join(a, b)
JoinPath(a, b) ==
    IF StartsWith(b, <<Sep>>) THEN b
    ELSE IF a = <<>> \/ a[Len(a)] = Sep THEN a \o b
    ELSE a \o <<Sep>> \o b

\* os.path.abspath(path)
Abspath(path) ==
    IF StartsWith(path, <<Sep>>) THEN Normpath(path)
    ELSE Normpath(JoinPath(Cwd, path))

\* os.path.dirname(path)
Dirname(path) ==
    LET at == {k \in 1..Len(path) : path[k] = Sep}
        head == IF at = {} THEN <<>> ELSE SubSeq(path, 1, CHOOSE k \in at : \A j \in at : j <= k)
        kept == {k \in 1..Len(head) : head[k] # Sep}
    IN  IF kept = {} THEN head
        ELSE SubSeq(head, 1, CHOOSE k \in kept : \A j \in kept : j <= k)

\* bpy.path.abspath(path): a leading "//" stands for the directory of the
\* open .blend file
BpyAbspath(path) ==
    IF StartsWith(path, <<Sep, Sep>>)
    THEN JoinPath(Dirname(blend_file), SubSeq(path, 3, Len(path)))
    ELSE path

(***************************************************************************)
(* CommandHandler._validate_filepath                                       *)
(***************************************************************************)
\* the default root: the directory of the .blend file, or the working
\* directory when no file is open
BlendDir == IF blend_file # <<>> THEN Dirname(blend_file) ELSE Cwd

\* a seeding that puts the default root in the place of the list
SeededPaths_Replaces(allowed) == <<BlendDir>>

\* ALLOWED_PATHS when the for loop starts: seeded when it was empty
SeededPaths(allowed) == IF allowed = <<>> THEN <<BlendDir>> ELSE allowed

\* abs_path.startswith(os.path.abspath(allowed))
UnderRoot(abs_path, allowed) == StartsWith(abs_path, Abspath(allowed))

\* _validate_filepath(filepath): how the call ends, ALLOWED_PATHS after it
\* and the path it returns (none when it raises)
ValidateFilepath(filepath) ==
    IF ~SAFE_MODE
    THEN [verdict |-> "returned", allowed |-> ALLOWED_PATHS, path |-> filepath]
    ELSE LET abs_path == Abspath(BpyAbspath(filepath))
             allowed == SeededPaths(ALLOWED_PATHS)
         IN  IF \E k \in 1..Len(allowed) : UnderRoot(abs_path, allowed[k])
             THEN [verdict |-> "returned", allowed |-> allowed, path |-> abs_path]
             ELSE [verdict |-> "PermissionError", allowed |-> allowed,
                   path |-> <<>>]

\* the paths a caller passes, the root lists and the .blend files of the model
Paths == UNION {[1..n -> PathChars] : n \in 0..MaxPathLen}

RootLists ==
    {<<>>,
     <<<<Sep, "p">>>>,
     <<<<Sep, "p", Sep>>>>,
     <<<<Sep>>>>,
     <<<<Sep, "o", Sep, "p">>, <<Sep, "p", Sep, "o">>>>}

BlendFiles == {<<>>, <<Sep, "o", Sep, "p">>}

\* a handler calls self._validate_filepath(filepath)
CheckPath ==
    /\ verdict = "none"
    /\ \E filepath \in Paths :
        LET r == ValidateFilepath(filepath)
        IN  /\ checked_path' = filepath
            /\ verdict' = r.verdict
            /\ ALLOWED_PATHS' = r.allowed
    /\ UNCHANGED <<SAFE_MODE, TOOL_WHITELIST, handlers, blend_file, check_pc,
                   check_arg>>
    /\ UNCHANGED <<server_vars, conn_vars, client_vars, tool_vars>>

\* the handler goes on with the path, or the error leaves it
CheckReturns ==
    /\ verdict # "none"
    /\ verdict' = "none"
    /\ checked_path' = <<>>
    /\ UNCHANGED <<config_vars, blend_file, check_pc, check_arg>>
    /\ UNCHANGED <<server_vars, conn_vars, client_vars, tool_vars>>

(***************************************************************************)
(* _validate_filepath called by the threads of several connections: the    *)
(* statements of one call, with the other threads running between them.    *)
(***************************************************************************)
\* the threads that run handlers, one per connection
Threads == {1, 2}

\* the paths they check
RacePaths == {<<Sep, "p", Sep, "o">>, <<Sep, "o">>, <<"o">>}

\* "if not SAFE_MODE: return filepath", abs_path, and "if not ALLOWED_PATHS"
CheckEnter(t) ==
    /\ check_pc[t] = "idle"
    /\ \E filepath \in RacePaths :
          check_arg' = [check_arg EXCEPT ![t] = filepath]
    /\ check_pc' = [check_pc EXCEPT ![t] =
                       IF ~SAFE_MODE THEN "returned"
                       ELSE IF ALLOWED_PATHS = <<>> THEN "seed"
                       ELSE "scan"]
    /\ UNCHANGED <<config_vars, blend_file, checked_path, verdict>>
    /\ UNCHANGED <<server_vars, conn_vars, client_vars, tool_vars>>

\* blend_dir = ...; ALLOWED_PATHS.append(blend_dir)
CheckSeed(t) ==
    /\ check_pc[t] = "seed"
    /\ ALLOWED_PATHS' = Append(ALLOWED_PATHS, BlendDir)
    /\ check_pc' = [check_pc EXCEPT ![t] = "scan"]
    /\ UNCHANGED <<SAFE_MODE, TOOL_WHITELIST, handlers, blend_file,
                   checked_path, verdict, check_arg>>
    /\ UNCHANGED <<server_vars, conn_vars, client_vars, tool_vars>>

\* for allowed in ALLOWED_PATHS: ... return filepath; raise PermissionError
CheckScan(t) ==
    /\ check_pc[t] = "scan"
    /\ check_pc' = [check_pc EXCEPT ![t] =
                       IF \E k \in 1..Len(ALLOWED_PATHS) :
                             UnderRoot(Abspath(BpyAbspath(check_arg[t])),
                                       ALLOWED_PATHS[k])
                       THEN "returned" ELSE "PermissionError"]
    /\ UNCHANGED <<config_vars, blend_file, checked_path, verdict, check_arg>>
    /\ UNCHANGED <<server_vars, conn_vars, client_vars, tool_vars>>

\* the call has returned or raised, and the handler goes on or ends
CheckLeave(t) ==
    /\ check_pc[t] \in {"returned", "PermissionError"}
    /\ check_pc' = [check_pc EXCEPT ![t] = "idle"]
    /\ check_arg' = [check_arg EXCEPT ![t] = <<>>]
    /\ UNCHANGED <<config_vars, blend_file, checked_path, verdict>>
    /\ UNCHANGED <<server_vars, conn_vars, client_vars, tool_vars>>


(***************************************************************************)
(* One accepted connection and its serving thread (_handle_client).        *)
(***************************************************************************)
\* the connections the server can accept
Conns == {1, 2}
Sockets == 1..MaxLoops
Loops == 1..MaxLoops

\* the frames a peer writes in this model: requests, lines that are no
\* request, and bytes with no terminator after them
Frames ==
    {<<"{", "i1", "cR", "}", NL>>,
     <<"{", "i2", "cM", "}", NL>>,
     <<"{", "cU", "}", NL>>,
     <<"{", "i1", "cL", "}", NL>>,
     <<"{", "}", NL>>,
     <<SP, NL>>,
     <<Garbage>>,
     <<Garbage, NL>>,
     <<Scalar, NL>>,
     <<BadByte, NL>>}

\* json.dumps(response).encode() + b"\n" is one line: the model keeps the
\* response itself as the frame
NoResponse == [id |-> None, success |-> FALSE, error |-> <<"no response">>]

NoOutcome ==
    [response |-> NoResponse, command |-> "", kind |-> "none",
     undo_push |-> FALSE, consulted |-> FALSE, ran |-> FALSE, steps |-> <<>>]

\* not line.strip()
IsBlank(line) == Range(line) \subseteq {SP}

\* the far end writes one more frame
PeerWrite(c) ==
    /\ pc[c] # "none"
    /\ peer[c] = "open"
    /\ written[c] < MaxFrames
    /\ \E f \in Frames :
        pending' = [pending EXCEPT ![c] = pending[c] \o f]
    /\ written' = [written EXCEPT ![c] = written[c] + 1]
    /\ UNCHANGED <<pc, peer, buffer, response, out, stream, carried, log, closed_by>>
    /\ UNCHANGED <<server_vars, config_vars, gate_vars, client_vars, tool_vars>>

\* the far end shuts its side down
PeerClose(c) ==
    /\ pc[c] # "none"
    /\ peer[c] = "open"
    /\ peer' = [peer EXCEPT ![c] = "closed"]
    /\ UNCHANGED <<pc, written, pending, buffer, response, out, stream, carried, log,
                   closed_by>>
    /\ UNCHANGED <<server_vars, config_vars, gate_vars, client_vars, tool_vars>>

CloseConn_ClosesAll(c, why) ==
    /\ pc' = [d \in Conns |-> IF pc[d] = "none" THEN "none" ELSE "closed"]
    /\ response' = [response EXCEPT ![c] = NoResponse]
    /\ closed_by' = [closed_by EXCEPT ![c] = why]

\* the exit of _handle_client: finally conn.close(). why: "stopped" (the
\* loop test failed), "eof" (recv returned b""), "oserror" (recv or sendall
\* raised), "exception" (anything else the outer except caught)
CloseConn(c, why) ==
    /\ pc' = [pc EXCEPT ![c] = "closed"]
    /\ response' = [response EXCEPT ![c] = NoResponse]
    /\ closed_by' = [closed_by EXCEPT ![c] = why]

\* a split that forgets what follows the newline
SplitLine_DropRest(buf, i) ==
    [line |-> SubSeq(buf, 1, i - 1), rest |-> <<>>]

\* line, buffer = buffer.split(b"\n", 1), for the first newline at i
SplitLine(buf, i) ==
    [line |-> SubSeq(buf, 1, i - 1), rest |-> SubSeq(buf, i + 1, Len(buf))]

\* the response to a line json.loads rejects
InvalidJson_WithResult ==
    [id |-> None, success |-> FALSE, error |-> <<"Invalid JSON">>, result |-> None]

\* the response to a line json.loads rejects with JSONDecodeError
InvalidJson == [id |-> None, success |-> FALSE, error |-> <<"Invalid JSON">>]

\* a send that is skipped for failure responses
Sendall_SuccessOnly(sent, frame) ==
    IF frame.success THEN Append(sent, frame) ELSE sent

\* conn.sendall(frame) on a connection that has sent the frames sent
Sendall(sent, frame) == Append(sent, frame)

\* while self._running:
LoopTest(c) ==
    /\ pc[c] = "loop"
    /\ IF running
       THEN /\ pc' = [pc EXCEPT ![c] = "recv"]
            /\ UNCHANGED <<response, closed_by>>
       ELSE CloseConn(c, "stopped")
    /\ UNCHANGED <<peer, written, pending, buffer, out, stream, carried, log>>
    /\ UNCHANGED <<server_vars, config_vars, gate_vars, client_vars, tool_vars>>

\* data = conn.recv(BUFFER_SIZE): some bytes that have arrived, b"" at the
\* end of the stream, or OSError
Recv(c) ==
    /\ pc[c] = "recv"
    /\ \/ \E n \in 1..Len(pending[c]) :
            /\ buffer' = [buffer EXCEPT ![c] = buffer[c] \o SubSeq(pending[c], 1, n)]
            /\ stream' = [stream EXCEPT ![c] = stream[c] \o SubSeq(pending[c], 1, n)]
            /\ pending' = [pending EXCEPT ![c] = SubSeq(pending[c], n + 1, Len(pending[c]))]
            /\ carried' = [carried EXCEPT ![c] = buffer[c] # <<>>]
            /\ pc' = [pc EXCEPT ![c] = "lines"]
            /\ UNCHANGED <<response, closed_by>>
       \/ /\ pending[c] = <<>>
          /\ peer[c] = "closed"
          /\ CloseConn(c, "eof")
          /\ UNCHANGED <<buffer, stream, carried, pending>>
       \/ /\ CloseConn(c, "oserror")
          /\ UNCHANGED <<buffer, stream, carried, pending>>
    /\ UNCHANGED <<peer, written, out, log>>
    /\ UNCHANGED <<server_vars, config_vars, gate_vars, client_vars, tool_vars>>

\* one turn of "while b'\n' in buffer": split a line off, skip it when it is
\* blank, decode it and build its response
Lines(c) ==
    /\ pc[c] = "lines"
    /\ LET i == Find(buffer[c], NL)
           line == SplitLine(buffer[c], i).line
           rest == SplitLine(buffer[c], i).rest
           request == JsonLoads(line)
           entry(p) == [line |-> line, decode |-> request.kind, p |-> p]
       IN  IF i = 0
           THEN /\ pc' = [pc EXCEPT ![c] = "loop"]
                /\ UNCHANGED <<buffer, response, log, closed_by, handlers>>
           ELSE /\ buffer' = [buffer EXCEPT ![c] = rest]
                /\ IF IsBlank(line)
                   THEN UNCHANGED <<pc, response, log, closed_by, handlers>>
                   ELSE IF request.kind = "JSONDecodeError"
                   THEN /\ response' = [response EXCEPT ![c] = InvalidJson]
                        /\ pc' = [pc EXCEPT ![c] = "send"]
                        /\ log' = [log EXCEPT ![c] = Append(log[c], entry(NoOutcome))]
                        /\ UNCHANGED <<closed_by, handlers>>
                   ELSE IF request.kind = "dict"
                   THEN \E undoOk, handlerOk \in BOOLEAN :
                          LET p == ProcessRequest(request.doc, undoOk, handlerOk)
                          IN  /\ response' = [response EXCEPT ![c] = p.response]
                              /\ pc' = [pc EXCEPT ![c] = "send"]
                              /\ log' = [log EXCEPT ![c] = Append(log[c], entry(p))]
                              /\ handlers' = IF p.consulted
                                              THEN HandlersGet(p.command)
                                              ELSE handlers
                              /\ UNCHANGED closed_by
                   ELSE \* UnicodeDecodeError from json.loads, or AttributeError
                        \* from request.get: neither is a JSONDecodeError
                        /\ CloseConn(c, "exception")
                        /\ log' = [log EXCEPT ![c] = Append(log[c], entry(NoOutcome))]
                        /\ UNCHANGED handlers
    /\ UNCHANGED <<peer, written, pending, out, stream, carried>>
    /\ UNCHANGED <<SAFE_MODE, ALLOWED_PATHS, TOOL_WHITELIST>>
    /\ UNCHANGED <<server_vars, gate_vars, client_vars, tool_vars>>

\* conn.sendall(json.dumps(response).encode() + b"\n"), or OSError
Send(c) ==
    /\ pc[c] = "send"
    /\ \/ /\ out' = [out EXCEPT ![c] = Sendall(out[c], response[c])]
          /\ pc' = [pc EXCEPT ![c] = "lines"]
          /\ response' = [response EXCEPT ![c] = NoResponse]
          /\ UNCHANGED closed_by
       \/ /\ CloseConn(c, "oserror")
          /\ UNCHANGED out
    /\ UNCHANGED <<peer, written, pending, buffer, stream, carried, log>>
    /\ UNCHANGED <<server_vars, config_vars, gate_vars, client_vars, tool_vars>>

\* an accept-loop thread that has not left _accept_loop
Live(l) == loop_pc[l] \in {"test", "accept", "blocked"}

\* stop() as one step, in which join() waits for the accept loop to end
Stop ==
    /\ running' = FALSE
    /\ server_socket' = 0
    /\ thread' = 0
    /\ sock_state' = [x \in Sockets |->
                        IF x = server_socket THEN "closed" ELSE sock_state[x]]
    /\ loop_pc' = [l \in Loops |-> IF Live(l) THEN "done" ELSE loop_pc[l]]
    /\ last_call' = "stop"
    /\ UNCHANGED <<loop_sock, stop_pc>>
    /\ UNCHANGED <<config_vars, conn_vars, gate_vars, client_vars, tool_vars>>

(***************************************************************************)
(* start(), stop() and _accept_loop, step by step.  start() and stop() are *)
(* called from one thread, so a call begins when the last one has ended;   *)
(* the accept loop and the connections' threads run beside them.           *)
(***************************************************************************)
\* the least of a non-empty set of numbers
Least(S) == CHOOSE x \in S : \A y \in S : x <= y

\* sockets not created yet, accept-loop threads not started yet, and
\* connections not accepted yet
FreeSockets == {x \in Sockets : sock_state[x] = "none"}
FreeLoops == {l \in Loops : loop_pc[l] = "none"}
FreeConns == {c \in Conns : pc[c] = "none"}

AlreadyRunning_Never == FALSE

\* if self._running: return
AlreadyRunning == running

\* start(): returns at once on a running server; otherwise sets the flag,
\* creates the socket, binds and listens (or bind raises OSError, which
\* leaves start() there) and starts the accept-loop thread
StartServer ==
    /\ stop_pc = "idle"
    /\ IF AlreadyRunning
       THEN /\ last_call' = "start: no-op"
            /\ UNCHANGED <<running, server_socket, thread, sock_state, loop_pc>>
       ELSE /\ FreeSockets # {} /\ FreeLoops # {}
            /\ running' = TRUE
            /\ server_socket' = Least(FreeSockets)
            /\ \/ /\ sock_state' = [sock_state EXCEPT ![Least(FreeSockets)] = "open"]
                  /\ thread' = Least(FreeLoops)
                  /\ loop_pc' = [loop_pc EXCEPT ![Least(FreeLoops)] = "test"]
                  /\ last_call' = "start"
               \/ /\ sock_state' = [sock_state EXCEPT ![Least(FreeSockets)] = "unbound"]
                  /\ last_call' = "start: OSError"
                  /\ UNCHANGED <<thread, loop_pc>>
    /\ UNCHANGED <<loop_sock, stop_pc>>
    /\ UNCHANGED <<config_vars, conn_vars, gate_vars, client_vars, tool_vars>>

StopFlag_KeepsFlag ==
    /\ stop_pc = "idle"
    /\ stop_pc' = "close"
    /\ UNCHANGED <<running, server_socket, thread, sock_state, loop_pc, loop_sock,
                   last_call>>
    /\ UNCHANGED <<config_vars, conn_vars, gate_vars, client_vars, tool_vars>>

\* stop(): self._running = False
StopFlag ==
    /\ stop_pc = "idle"
    /\ running' = FALSE
    /\ stop_pc' = "close"
    /\ UNCHANGED <<server_socket, thread, sock_state, loop_pc, loop_sock, last_call>>
    /\ UNCHANGED <<config_vars, conn_vars, gate_vars, client_vars, tool_vars>>

\* stop(): if self._server_socket: close it and set it to None
StopClose ==
    /\ stop_pc = "close"
    /\ sock_state' = [x \in Sockets |->
                        IF x = server_socket THEN "closed" ELSE sock_state[x]]
    /\ server_socket' = 0
    /\ stop_pc' = "join"
    /\ UNCHANGED <<running, thread, loop_pc, loop_sock, last_call>>
    /\ UNCHANGED <<config_vars, conn_vars, gate_vars, client_vars, tool_vars>>

\* stop(): if self._thread: join(timeout=3), then self._thread = None.
\* accept() waits for a second at most (settimeout(1.0)), so the thread has
\* left its loop before the three seconds of join are up
StopJoin ==
    /\ stop_pc = "join"
    /\ IF thread = 0 THEN TRUE ELSE ~Live(thread)
    /\ thread' = 0
    /\ stop_pc' = "idle"
    /\ last_call' = "stop"
    /\ UNCHANGED <<running, server_socket, sock_state, loop_pc, loop_sock>>
    /\ UNCHANGED <<config_vars, conn_vars, gate_vars, client_vars, tool_vars>>

\* _accept_loop: while self._running
AcceptLoopTest(l) ==
    /\ loop_pc[l] = "test"
    /\ loop_pc' = [loop_pc EXCEPT ![l] = IF running THEN "accept" ELSE "done"]
    /\ UNCHANGED <<running, server_socket, thread, sock_state, loop_sock, stop_pc,
                   last_call>>
    /\ UNCHANGED <<config_vars, conn_vars, gate_vars, client_vars, tool_vars>>

\* _accept_loop: self._server_socket.accept() is called.  On None it raises
\* AttributeError, which no except clause of the loop catches; on a socket
\* that is closed or not listening it raises OSError (break); on a
\* listening socket it waits
AcceptCall(l) ==
    /\ loop_pc[l] = "accept"
    /\ IF server_socket = 0
       THEN /\ loop_pc' = [loop_pc EXCEPT ![l] = "died"]
            /\ UNCHANGED loop_sock
       ELSE IF sock_state[server_socket] # "open"
       THEN /\ loop_pc' = [loop_pc EXCEPT ![l] = "done"]
            /\ UNCHANGED loop_sock
       ELSE /\ loop_pc' = [loop_pc EXCEPT ![l] = "blocked"]
            /\ loop_sock' = [loop_sock EXCEPT ![l] = server_socket]
    /\ UNCHANGED <<running, server_socket, thread, sock_state, stop_pc, last_call>>
    /\ UNCHANGED <<config_vars, conn_vars, gate_vars, client_vars, tool_vars>>

\* an accept loop that serves a connection itself: it takes the next one
\* when the last one is closed
AcceptReturn_ServesInLoop(l) ==
    /\ loop_pc[l] = "blocked"
    /\ \/ /\ sock_state[loop_sock[l]] = "open"
          /\ FreeConns # {}
          /\ \A c \in Conns : pc[c] \in {"none", "closed"}
          /\ pc' = [pc EXCEPT ![Least(FreeConns)] = "loop"]
          /\ loop_pc' = [loop_pc EXCEPT ![l] = "test"]
       \/ /\ loop_pc' = [loop_pc EXCEPT ![l] = "test"]
          /\ UNCHANGED pc
       \/ /\ sock_state[loop_sock[l]] = "closed"
          /\ loop_pc' = [loop_pc EXCEPT ![l] = "done"]
          /\ UNCHANGED pc
    /\ UNCHANGED <<running, server_socket, thread, sock_state, loop_sock, stop_pc,
                   last_call>>
    /\ UNCHANGED <<peer, written, pending, buffer, response, out, stream, carried,
                   log, closed_by>>
    /\ UNCHANGED <<config_vars, gate_vars, client_vars, tool_vars>>

\* _accept_loop: accept() returns a connection, whose thread is started,
\* or raises socket.timeout after a second (continue), or raises OSError
\* because the socket was closed (break)
AcceptReturn(l) ==
    /\ loop_pc[l] = "blocked"
    /\ \/ /\ sock_state[loop_sock[l]] = "open"
          /\ FreeConns # {}
          /\ pc' = [pc EXCEPT ![Least(FreeConns)] = "loop"]
          /\ loop_pc' = [loop_pc EXCEPT ![l] = "test"]
       \/ /\ loop_pc' = [loop_pc EXCEPT ![l] = "test"]
          /\ UNCHANGED pc
       \/ /\ sock_state[loop_sock[l]] = "closed"
          /\ loop_pc' = [loop_pc EXCEPT ![l] = "done"]
          /\ UNCHANGED pc
    /\ UNCHANGED <<running, server_socket, thread, sock_state, loop_sock, stop_pc,
                   last_call>>
    /\ UNCHANGED <<peer, written, pending, buffer, response, out, stream, carried,
                   log, closed_by>>
    /\ UNCHANGED <<config_vars, gate_vars, client_vars, tool_vars>>

\* the frames a peer writes in the life-cycle specification: a request, and
\* a line that is no request
LifeFrames == {<<"{", "}", NL>>, <<Scalar, NL>>}

\* the far end writes one of them
LifeWrite(c) ==
    /\ written[1] + written[2] < MaxLifeFrames
    /\ PeerWrite(c)
    /\ \E f \in LifeFrames : pending'[c] = pending[c] \o f

(***************************************************************************)
(* BlenderConnection (server.py): send_command and connect.                *)
(* The tasks run on one event loop: a step is the code between two awaits. *)
(***************************************************************************)
Tasks == 1..NumTasks
Connections == 1..MaxConnections

Idle == [pc |-> "idle", id |-> 0, rconn |-> 0, read_id |-> 0, outcome |-> "none"]

\* asyncio.Lock.locked()
IsLocked_Never == FALSE

IsLocked == lock # 0

\* the call of task k ends: it returns or raises (outcome), having read the
\* response line of request read_id (0: it read none)
Ends(k, outcome, read_id) ==
    task' = [task EXCEPT ![k] = [pc |-> "idle", id |-> task[k].id, rconn |-> 0,
                                 read_id |-> read_id, outcome |-> outcome]]

\* inside "async with self._lock", up to the await of drain():
\* self._writer.write(frame), with w the value of self._writer
WriteRequest(k, id, w) ==
    IF w = 0
    THEN \* None has no write: AttributeError leaves the with block
         /\ Ends(k, "AttributeError", 0)
         /\ UNCHANGED <<lock, c2s>>
    ELSE /\ c2s' = [c2s EXCEPT ![w] = Append(c2s[w], id)]
         /\ lock' = k
         /\ task' = [task EXCEPT ![k] = [pc |-> "drain", id |-> id, rconn |-> 0,
                                         read_id |-> 0, outcome |-> "none"]]

\* from the request's construction to the first await that suspends:
\* "async with self._lock" takes a free lock at once and waits otherwise
Enter(k, id, w) ==
    IF IsLocked \/ waiters # <<>>
    THEN /\ waiters' = Append(waiters, k)
         /\ task' = [task EXCEPT ![k] = [pc |-> "waiting", id |-> id, rconn |-> 0,
                                         read_id |-> 0, outcome |-> "none"]]
         /\ UNCHANGED <<lock, c2s>>
    ELSE /\ WriteRequest(k, id, w)
         /\ UNCHANGED waiters

\* send_command is called: "if not self._writer: await self.connect()"
Start(k) ==
    /\ lifespan = "serving"
    /\ task[k].pc = "idle"
    /\ calls < MaxCalls
    /\ calls' = calls + 1
    /\ IF writer = 0
       THEN /\ task' = [task EXCEPT ![k] = [pc |-> "connecting", id |-> calls + 1,
                                            rconn |-> 0, read_id |-> 0,
                                            outcome |-> "none"]]
            /\ UNCHANGED <<lock, waiters, c2s>>
       ELSE Enter(k, calls + 1, writer)
    /\ UNCHANGED <<reader, writer, opened, s2c, far_end, long_lines, sock>>
    /\ UNCHANGED <<server_vars, config_vars, conn_vars, gate_vars, tool_vars>>

\* connect(): asyncio.open_connection returns, both handles are assigned
ConnectDone(k) ==
    /\ task[k].pc = "connecting"
    /\ opened < MaxConnections
    /\ LET c == opened + 1
       IN  /\ opened' = c
           /\ reader' = c
           /\ writer' = c
           /\ far_end' = [far_end EXCEPT ![c] = "open"]
           /\ sock' = [sock EXCEPT ![c] = "open"]
           /\ Enter(k, task[k].id, c)
    /\ UNCHANGED <<calls, s2c, long_lines>>
    /\ UNCHANGED <<server_vars, config_vars, conn_vars, gate_vars, tool_vars>>

ConnectFails_KeepsLock(k) ==
    /\ task[k].pc = "connecting"
    /\ Ends(k, "OSError", 0)
    /\ lock' = k
    /\ UNCHANGED <<reader, writer, waiters, calls, opened, c2s, s2c, far_end,
                   long_lines, sock>>
    /\ UNCHANGED <<server_vars, config_vars, conn_vars, gate_vars, tool_vars>>

\* connect(): asyncio.open_connection raises OSError, which leaves send_command
ConnectFails(k) ==
    /\ task[k].pc = "connecting"
    /\ Ends(k, "OSError", 0)
    /\ UNCHANGED <<reader, writer, lock, waiters, calls, opened, c2s, s2c, far_end,
                   long_lines, sock>>
    /\ UNCHANGED <<server_vars, config_vars, conn_vars, gate_vars, tool_vars>>

\* a waiting task is given the lock and runs on to drain()
Acquire(k) ==
    /\ task[k].pc = "waiting"
    /\ ~IsLocked
    /\ waiters # <<>> /\ Head(waiters) = k
    /\ waiters' = Tail(waiters)
    /\ WriteRequest(k, task[k].id, writer)
    /\ UNCHANGED <<reader, writer, calls, opened, s2c, far_end, long_lines, sock>>
    /\ UNCHANGED <<server_vars, config_vars, conn_vars, gate_vars, tool_vars>>

ConnectionLost_KeepsReader(k) ==
    /\ writer' = 0
    /\ reader' = reader
    /\ lock' = 0
    /\ Ends(k, "ConnectionError", 0)

\* except (ConnectionError, OSError): both handles are dropped and
\* ConnectionError is raised, which releases the lock
ConnectionLost(k) ==
    /\ writer' = 0
    /\ reader' = 0
    /\ lock' = 0
    /\ Ends(k, "ConnectionError", 0)

\* the sockets once the transport of connection c was closed on an error
Aborted(c) == IF c = 0 THEN sock ELSE [sock EXCEPT ![c] = "closed"]

\* await self._writer.drain() returns and self._reader.readline() is called,
\* or drain() raises
Drain(k) ==
    /\ task[k].pc = "drain"
    /\ \/ /\ reader # 0
          /\ task' = [task EXCEPT ![k].pc = "read", ![k].rconn = reader]
          /\ UNCHANGED <<reader, writer, lock, sock>>
       \/ /\ reader = 0
          /\ Ends(k, "AttributeError", 0)
          /\ lock' = 0
          /\ UNCHANGED <<reader, writer, sock>>
       \/ \* drain() raises what the transport was closed with
          /\ ConnectionLost(k)
          /\ sock' = Aborted(writer)
    /\ UNCHANGED <<waiters, calls, opened, c2s, s2c, far_end, long_lines>>
    /\ UNCHANGED <<server_vars, config_vars, conn_vars, gate_vars, tool_vars>>

ReadLine_IgnoresSuccess(k, h, all) ==
    CASE h.kind = "line" -> [outcome |-> "result", left |-> <<>>]
      [] h.kind = "long" ->
            [outcome |-> "ValueError",
             left |-> IF all THEN <<>> ELSE <<[id |-> h.id, success |-> h.success, kind |-> "rest"]>>]
      [] OTHER -> [outcome |-> "JSONDecodeError", left |-> <<>>]

\* what the awaited readline() of task k does with the first line h of its
\* connection.  A line within the limit is returned and decoded.  A line over
\* the StreamReader limit raises ValueError, with the whole line dropped
\* (all = TRUE) or only the bytes buffered so far, so that the rest of it is
\* the next line.  Such a rest is returned as a line, which is no JSON.
ReadLine(k, h, all) ==
    CASE h.kind = "line" ->
            [outcome |-> IF h.success THEN "result" ELSE "RuntimeError", left |-> <<>>]
      [] h.kind = "long" ->
            [outcome |-> "ValueError",
             left |-> IF all THEN <<>> ELSE <<[id |-> h.id, success |-> h.success, kind |-> "rest"]>>]
      [] OTHER ->
            [outcome |-> "JSONDecodeError", left |-> <<>>]

\* line = await self._reader.readline() and what follows it
Read(k) ==
    /\ task[k].pc = "read"
    /\ LET r == task[k].rconn
       IN  \/ /\ s2c[r] # <<>>
              /\ \E all \in BOOLEAN :
                    LET got == ReadLine(k, Head(s2c[r]), all)
                    IN  /\ s2c' = [s2c EXCEPT ![r] = got.left \o Tail(s2c[r])]
                        /\ Ends(k, got.outcome, Head(s2c[r]).id)
              /\ lock' = 0
              /\ UNCHANGED <<reader, writer, sock>>
           \/ \* b"" at the end of the stream: the transport stays open
              /\ ConnectionLost(k)
              /\ UNCHANGED <<s2c, sock>>
           \/ \* OSError: the transport was closed with it
              /\ ConnectionLost(k)
              /\ sock' = Aborted(r)
              /\ UNCHANGED s2c
    /\ UNCHANGED <<waiters, calls, opened, c2s, far_end, long_lines>>
    /\ UNCHANGED <<server_vars, config_vars, conn_vars, gate_vars, tool_vars>>

\* the add-on at the far end of connection c answers the next request line
\* with a response frame that carries its id (_process_request, sendall)
AddonResponds(c) ==
    /\ far_end[c] = "open"
    /\ c2s[c] # <<>>
    /\ c2s' = [c2s EXCEPT ![c] = Tail(c2s[c])]
    /\ \E success \in BOOLEAN :
        \/ /\ s2c' = [s2c EXCEPT ![c] =
                        Append(s2c[c], [id |-> Head(c2s[c]), success |-> success,
                                        kind |-> "line"])]
           /\ UNCHANGED long_lines
        \/ /\ long_lines < MaxLongLines
           /\ long_lines' = long_lines + 1
           /\ s2c' = [s2c EXCEPT ![c] =
                        Append(s2c[c], [id |-> Head(c2s[c]), success |-> success,
                                        kind |-> "long"])]
    /\ UNCHANGED <<reader, writer, lock, waiters, task, calls, opened, far_end,
                   sock>>
    /\ UNCHANGED <<server_vars, config_vars, conn_vars, gate_vars, tool_vars>>

\* the add-on closes connection c (_handle_client's finally)
AddonCloses(c) ==
    /\ far_end[c] = "open"
    /\ far_end' = [far_end EXCEPT ![c] = "closed"]
    /\ UNCHANGED <<reader, writer, lock, waiters, task, calls, opened, c2s, s2c,
                   long_lines, sock>>
    /\ UNCHANGED <<server_vars, config_vars, conn_vars, gate_vars, tool_vars>>


(***************************************************************************)
(* blender_lifespan (server.py): connect() before the adapter serves, and  *)
(* disconnect() when it shuts down.                                        *)
(***************************************************************************)
\* "await conn.connect()": open_connection returns and connect() assigns
\* both handles, or it raises OSError, which blender_lifespan swallows
LifespanConnect ==
    /\ lifespan = "starting"
    /\ lifespan' = "serving"
    /\ \/ /\ opened < MaxConnections
          /\ opened' = opened + 1
          /\ reader' = opened + 1
          /\ writer' = opened + 1
          /\ far_end' = [far_end EXCEPT ![opened + 1] = "open"]
          /\ sock' = [sock EXCEPT ![opened + 1] = "open"]
       \/ UNCHANGED <<opened, reader, writer, far_end, sock>>
    /\ UNCHANGED <<lock, waiters, task, calls, c2s, s2c, long_lines, tool_call>>
    /\ UNCHANGED <<server_vars, config_vars, conn_vars, gate_vars>>

\* disconnect() up to its await: "if self._writer:" self._writer.close()
\* and the call of wait_closed(); with no writer it returns at once
DisconnectClose ==
    /\ lifespan = "serving"
    /\ IF writer = 0
       THEN /\ lifespan' = "ended"
            /\ UNCHANGED sock
       ELSE /\ lifespan' = "closing"
            /\ sock' = [sock EXCEPT ![writer] = "closed"]
    /\ UNCHANGED <<reader, writer, lock, waiters, task, calls, opened, c2s, s2c,
                   far_end, long_lines, tool_call>>
    /\ UNCHANGED <<server_vars, config_vars, conn_vars, gate_vars>>

\* a disconnect() that clears the writer and keeps the reader
DisconnectDone_WriterOnly ==
    /\ lifespan = "closing"
    /\ lifespan' = "ended"
    /\ writer' = 0
    /\ UNCHANGED <<reader, lock, waiters, task, calls, opened, c2s, s2c, far_end,
                   long_lines, sock, tool_call>>
    /\ UNCHANGED <<server_vars, config_vars, conn_vars, gate_vars>>

\* wait_closed() returns: self._writer = None, self._reader = None
DisconnectDone ==
    /\ lifespan = "closing"
    /\ lifespan' = "ended"
    /\ writer' = 0
    /\ reader' = 0
    /\ UNCHANGED <<lock, waiters, task, calls, opened, c2s, s2c, far_end,
                   long_lines, sock, tool_call>>
    /\ UNCHANGED <<server_vars, config_vars, conn_vars, gate_vars>>

(***************************************************************************)
(* The adapter's tools (server.py): each @mcp.tool function builds the     *)
(* params of one bridge command and passes both to send_command.           *)
(***************************************************************************)
\* argument values: None, a str, a list of floats, a float, a bool
NoneValue == <<"None", "">>
StrValue(s) == <<"str", s>>
ListValue(s) == <<"list", s>>
FloatValue(s) == <<"float", s>>
BoolValue(b) == <<"bool", IF b THEN "True" ELSE "False">>

\* bool(v) of an argument, as "if name:" takes it
Truthy(v) == v \notin {NoneValue, StrValue(""), ListValue(""), BoolValue(FALSE)}

\* the arguments a tool is called with: a required str (name, or mesh_type
\* of object_create), an optional str (type, name, new_name), the optional
\* lists location and offset, a required list (rotation, scale), size and
\* degrees
RequiredStrs == {StrValue(""), StrValue("Cube"), StrValue("cube")}
OptionalStrs == {NoneValue, StrValue(""), StrValue("Cube"), StrValue("MESH")}
OptionalLists == {NoneValue, ListValue(""), ListValue("1,2,3"), ListValue("0,0,0")}
RequiredLists == {ListValue(""), ListValue("1,2,3")}
ToolArgs ==
    [name : RequiredStrs, opt : OptionalStrs, location : OptionalLists,
     offset : OptionalLists, vector : RequiredLists, size : {FloatValue("2.0"), FloatValue("1.0")},
     degrees : {BoolValue(TRUE), BoolValue(FALSE)}]

\* params[key] = value "if value:", as the tool bodies add an optional key
Optional(key, value) == IF Truthy(value) THEN {<<key, value>>} ELSE {}

\* the names given to @mcp.tool(name=...)
ToolNames ==
    {"blender_scene_get_info", "blender_scene_list_objects",
     "blender_object_get_transform", "blender_object_get_hierarchy",
     "blender_material_list", "blender_object_create", "blender_object_delete",
     "blender_object_translate", "blender_object_rotate",
     "blender_object_scale", "blender_object_duplicate"}

\* the command each tool function passes to send_command
ToolCommand(tool) ==
    CASE tool = "blender_scene_get_info" -> "scene.get_info"
      [] tool = "blender_scene_list_objects" -> "scene.list_objects"
      [] tool = "blender_object_get_transform" -> "object.get_transform"
      [] tool = "blender_object_get_hierarchy" -> "object.get_hierarchy"
      [] tool = "blender_material_list" -> "material.list"
      [] tool = "blender_object_create" -> "object.create_mesh"
      [] tool = "blender_object_delete" -> "object.delete"
      [] tool = "blender_object_translate" -> "object.translate"
      [] tool = "blender_object_rotate" -> "object.rotate"
      [] tool = "blender_object_scale" -> "object.scale"
      [] tool = "blender_object_duplicate" -> "object.duplicate"

\* the params argument of send_command: a dict, or the default None
NoParams == [given |-> FALSE, members |-> {}]
Params(members) == [given |-> TRUE, members |-> members]

\* the params each tool function builds from its arguments
ToolParams(tool, a) ==
    CASE tool = "blender_scene_get_info" -> NoParams
      [] tool = "blender_scene_list_objects" -> Params(Optional("type", a.opt))
      [] tool = "blender_object_get_transform" -> Params({<<"name", a.name>>})
      [] tool = "blender_object_get_hierarchy" -> Params(Optional("name", a.opt))
      [] tool = "blender_material_list" -> NoParams
      [] tool = "blender_object_create" ->
            Params({<<"type", a.name>>, <<"size", a.size>>}
                \cup Optional("name", a.opt) \cup Optional("location", a.location))
      [] tool = "blender_object_delete" -> Params({<<"name", a.name>>})
      [] tool = "blender_object_translate" ->
            Params({<<"name", a.name>>}
                \cup Optional("location", a.location) \cup Optional("offset", a.offset))
      [] tool = "blender_object_rotate" ->
            Params({<<"name", a.name>>, <<"rotation", a.vector>>, <<"degrees", a.degrees>>})
      [] tool = "blender_object_scale" ->
            Params({<<"name", a.name>>, <<"scale", a.vector>>})
      [] tool = "blender_object_duplicate" ->
            Params({<<"name", a.name>>} \cup Optional("new_name", a.opt))

\* the command and params members of the request send_command builds:
\* "params": params or {}
RequestOf(command, params) ==
    [command |-> command,
     params |-> IF params.given /\ params.members # {} THEN params.members ELSE {}]

NoToolCall == [tool |-> "", command |-> "", params |-> {}]

\* a tool is invoked with arguments a
CallTool(tool, a) ==
    /\ tool_call' = [tool |-> tool,
                     command |-> RequestOf(ToolCommand(tool), ToolParams(tool, a)).command,
                     params |-> RequestOf(ToolCommand(tool), ToolParams(tool, a)).params]
    /\ UNCHANGED <<server_vars, config_vars, conn_vars, gate_vars, client_vars,
                   lifespan>>


(***************************************************************************)
(* The serving of one connection: a listening server that has accepted     *)
(* connection 1, under either whitelist configuration.                     *)
(***************************************************************************)
NoWhitelist == [configured |-> FALSE, names |-> {}]

\* a whitelist that admits one registered command and one unregistered name
SomeWhitelist == [configured |-> TRUE, names |-> {"scene.get_info", "bogus.cmd"}]

vars ==
    <<server_vars, config_vars, conn_vars, gate_vars, client_vars, tool_vars>>

\* no path check is under way
InitGate ==
    /\ checked_path = <<>>
    /\ verdict = "none"
    /\ check_pc = [t \in Threads |-> "idle"]
    /\ check_arg = [t \in Threads |-> <<>>]

\* a BlenderConnection as __init__ leaves it, in the given phase of
\* blender_lifespan
InitClientIn(phase) ==
    /\ lifespan = phase
    /\ reader = 0
    /\ writer = 0
    /\ lock = 0
    /\ waiters = <<>>
    /\ task = [k \in Tasks |-> Idle]
    /\ calls = 0
    /\ opened = 0
    /\ c2s = [c \in Connections |-> <<>>]
    /\ s2c = [c \in Connections |-> <<>>]
    /\ far_end = [c \in Connections |-> "none"]
    /\ long_lines = 0
    /\ sock = [c \in Connections |-> "none"]
    /\ tool_call = NoToolCall

\* the adapter serves tool calls, its connect at startup having failed
InitClient == InitClientIn("serving")

InitConns ==
    /\ pc = [c \in Conns |-> IF c = 1 THEN "loop" ELSE "none"]
    /\ peer = [c \in Conns |-> "open"]
    /\ written = [c \in Conns |-> 0]
    /\ pending = [c \in Conns |-> <<>>]
    /\ buffer = [c \in Conns |-> <<>>]
    /\ response = [c \in Conns |-> NoResponse]
    /\ out = [c \in Conns |-> <<>>]
    /\ stream = [c \in Conns |-> <<>>]
    /\ carried = [c \in Conns |-> FALSE]
    /\ log = [c \in Conns |-> <<>>]
    /\ closed_by = [c \in Conns |-> "open"]

Init ==
    /\ SAFE_MODE = FALSE
    /\ ALLOWED_PATHS = <<>>
    /\ TOOL_WHITELIST \in {NoWhitelist, SomeWhitelist}
    /\ handlers = Registered
    /\ running = TRUE
    /\ server_socket = 1
    /\ thread = 1
    /\ sock_state = [x \in Sockets |-> IF x = 1 THEN "open" ELSE "none"]
    /\ loop_pc = [l \in Loops |-> IF l = 1 THEN "blocked" ELSE "none"]
    /\ loop_sock = [l \in Loops |-> IF l = 1 THEN 1 ELSE 0]
    /\ stop_pc = "idle"
    /\ last_call = "start"
    /\ InitConns
    /\ blend_file = <<>>
    /\ InitGate
    /\ InitClient

Next ==
    \/ \E c \in Conns : PeerWrite(c)
    \/ \E c \in Conns : PeerClose(c)
    \/ \E c \in Conns : LoopTest(c)
    \/ \E c \in Conns : Recv(c)
    \/ \E c \in Conns : Lines(c)
    \/ \E c \in Conns : Send(c)
    \/ Stop

Spec == Init /\ [][Next]_vars

(***************************************************************************)
(* The path check on its own: any configuration, any path.                 *)
(***************************************************************************)
NoConns ==
    /\ pc = [c \in Conns |-> "none"]
    /\ peer = [c \in Conns |-> "open"]
    /\ written = [c \in Conns |-> 0]
    /\ pending = [c \in Conns |-> <<>>]
    /\ buffer = [c \in Conns |-> <<>>]
    /\ response = [c \in Conns |-> NoResponse]
    /\ out = [c \in Conns |-> <<>>]
    /\ stream = [c \in Conns |-> <<>>]
    /\ carried = [c \in Conns |-> FALSE]
    /\ log = [c \in Conns |-> <<>>]
    /\ closed_by = [c \in Conns |-> "open"]

\* a server as __init__ leaves it
InitServer ==
    /\ running = FALSE
    /\ server_socket = 0
    /\ thread = 0
    /\ sock_state = [x \in Sockets |-> "none"]
    /\ loop_pc = [l \in Loops |-> "none"]
    /\ loop_sock = [l \in Loops |-> 0]
    /\ stop_pc = "idle"
    /\ last_call = "none"
    /\ NoConns

GateInit ==
    /\ SAFE_MODE \in BOOLEAN
    /\ ALLOWED_PATHS \in RootLists
    /\ TOOL_WHITELIST = NoWhitelist
    /\ handlers = Registered
    /\ blend_file \in BlendFiles
    /\ InitGate
    /\ InitServer
    /\ InitClient

GateNext == CheckPath \/ CheckReturns

GateSpec == GateInit /\ [][GateNext]_vars

(***************************************************************************)
(* The path check run by two threads at once, from an empty root list.     *)
(***************************************************************************)
GateRaceInit ==
    /\ SAFE_MODE \in BOOLEAN
    /\ ALLOWED_PATHS = <<>>
    /\ TOOL_WHITELIST = NoWhitelist
    /\ handlers = Registered
    /\ blend_file \in BlendFiles
    /\ InitGate
    /\ InitServer
    /\ InitClient

GateRaceNext ==
    \/ \E t \in Threads : CheckEnter(t)
    \/ \E t \in Threads : CheckSeed(t)
    \/ \E t \in Threads : CheckScan(t)
    \/ \E t \in Threads : CheckLeave(t)

GateRaceSpec == GateRaceInit /\ [][GateRaceNext]_vars

(***************************************************************************)
(* The adapter's client on its own, against an add-on that answers each    *)
(* request line in turn or closes the connection.                          *)
(***************************************************************************)
ClientInit ==
    /\ SAFE_MODE = FALSE
    /\ ALLOWED_PATHS = <<>>
    /\ TOOL_WHITELIST = NoWhitelist
    /\ handlers = Registered
    /\ blend_file = <<>>
    /\ InitGate
    /\ InitServer
    /\ InitClient

ClientNext ==
    \/ \E k \in Tasks : Start(k)
    \/ \E k \in Tasks : ConnectDone(k)
    \/ \E k \in Tasks : ConnectFails(k)
    \/ \E k \in Tasks : Acquire(k)
    \/ \E k \in Tasks : Drain(k)
    \/ \E k \in Tasks : Read(k)
    \/ \E c \in Connections : AddonResponds(c)
    \/ \E c \in Connections : AddonCloses(c)

ClientSpec == ClientInit /\ [][ClientNext]_vars

\* the awaited readline() of task k returns because its stream has a line,
\* or has ended: the add-on closed the connection the task reads
ReadReturns(k) ==
    /\ Read(k)
    /\ s2c[task[k].rconn] # <<>> \/ far_end[task[k].rconn] = "closed"

\* the event loop resumes every task whose await is over: a connect ends one
\* way or the other, a free lock goes to the first waiter, drain() returns
\* or raises, readline() returns what its stream holds.  The add-on answers
\* every request line it has received on a connection it has not closed
ClientFairness ==
    /\ \A k \in Tasks :
          /\ WF_vars(ConnectDone(k) \/ ConnectFails(k))
          /\ WF_vars(Acquire(k))
          /\ WF_vars(Drain(k))
          /\ WF_vars(ReadReturns(k))
    /\ \A c \in Connections : WF_vars(AddonResponds(c))

ClientFairSpec == ClientSpec /\ ClientFairness

(***************************************************************************)
(* The client over the life of the adapter: blender_lifespan connects,     *)
(* tool calls run send_command, and disconnect() may come at any point of  *)
(* them.                                                                   *)
(***************************************************************************)
ClientLifeInit ==
    /\ SAFE_MODE = FALSE
    /\ ALLOWED_PATHS = <<>>
    /\ TOOL_WHITELIST = NoWhitelist
    /\ handlers = Registered
    /\ blend_file = <<>>
    /\ InitGate
    /\ InitServer
    /\ InitClientIn("starting")

ClientLifeNext ==
    \/ LifespanConnect
    \/ DisconnectClose
    \/ DisconnectDone
    \/ ClientNext

ClientLifeSpec == ClientLifeInit /\ [][ClientLifeNext]_vars

(***************************************************************************)
(* The tools: any tool is invoked, with any arguments, on a fresh adapter. *)
(***************************************************************************)
ToolInit == ClientInit

ToolNext == \E tool \in ToolNames : \E a \in ToolArgs : CallTool(tool, a)

ToolSpec == ToolInit /\ [][ToolNext]_vars

(***************************************************************************)
(* The server's life cycle: start(), stop(), the accept loop and the       *)
(* connections it accepts.                                                 *)
(***************************************************************************)
LifeInit ==
    /\ SAFE_MODE = FALSE
    /\ ALLOWED_PATHS = <<>>
    /\ TOOL_WHITELIST = NoWhitelist
    /\ handlers = Registered
    /\ blend_file = <<>>
    /\ InitGate
    /\ InitServer
    /\ InitClient

LifeNext ==
    \/ StartServer
    \/ StopFlag
    \/ StopClose
    \/ StopJoin
    \/ \E l \in Loops : AcceptLoopTest(l)
    \/ \E l \in Loops : AcceptCall(l)
    \/ \E l \in Loops : AcceptReturn(l)
    \/ \E c \in Conns : LifeWrite(c)
    \/ \E c \in Conns : PeerClose(c)
    \/ \E c \in Conns : LoopTest(c)
    \/ \E c \in Conns : Recv(c)
    \/ \E c \in Conns : Lines(c)
    \/ \E c \in Conns : Send(c)

LifeSpec == LifeInit /\ [][LifeNext]_vars

\* the threads of the accept loop and of stop() are scheduled, and an
\* accept() that waits returns: with a connection, or after its timeout
LifeFairness ==
    /\ WF_vars(StopClose)
    /\ WF_vars(StopJoin)
    /\ \A l \in Loops :
          /\ WF_vars(AcceptLoopTest(l))
          /\ WF_vars(AcceptCall(l))
          /\ WF_vars(AcceptReturn(l))

LifeFairSpec == LifeSpec /\ LifeFairness

\* the accept loop's thread is scheduled, whatever the other threads do
AcceptLoopRuns ==
    WF_vars(\E l \in Loops : AcceptLoopTest(l) \/ AcceptCall(l) \/ AcceptReturn(l))

\* peers keep connecting: an accept() that is called again and again on a
\* listening socket does not time out every time
PeersKeepConnecting ==
    SF_vars(\E l \in Loops : AcceptReturn(l) /\ pc' # pc)

LifeAcceptSpec == LifeSpec /\ AcceptLoopRuns /\ PeersKeepConnecting



(***************************************************************************)
(* What the wire says, read off the bytes alone.                           *)
(***************************************************************************)
Max(S) == CHOOSE x \in S : \A y \in S : y <= x

\* the positions of the terminators of s, and the k-th of them
Terminators(s) == {i \in 1..Len(s) : s[i] = NL}

Terminator(s, k) ==
    CHOOSE i \in Terminators(s) : Cardinality({j \in Terminators(s) : j <= i}) = k

\* the k-th newline-terminated line of s, without its terminator
TerminatedLine(s, k) ==
    LET e == Terminator(s, k)
        b == IF k = 1 THEN 1 ELSE Terminator(s, k - 1) + 1
    IN  SubSeq(s, b, e - 1)

TerminatedLines(s) ==
    [k \in 1..Cardinality(Terminators(s)) |-> TerminatedLine(s, k)]

\* the lines of s that hold a byte other than whitespace
NonBlankLines(s) ==
    SelectSeq(TerminatedLines(s), LAMBDA l : \E k \in 1..Len(l) : l[k] # SP)

\* the bytes of s after its last terminator
Unterminated(s) ==
    IF Terminators(s) = {} THEN s
    ELSE SubSeq(s, Max(Terminators(s)) + 1, Len(s))

\* the value of the id member a request line carries (its last one), None
\* when it carries none; likewise its command name, "" when it carries none
IdOfLine(line) ==
    LET at == {k \in 1..Len(line) : line[k] \in DOMAIN IdMember}
    IN  IF at = {} THEN None ELSE IdMember[line[Max(at)]]

CommandOfLine(line) ==
    LET at == {k \in 1..Len(line) : line[k] \in DOMAIN CommandMember}
    IN  IF at = {} THEN "" ELSE CommandMember[line[Max(at)]]

DecodesToObject(line) == JsonLoads(line).kind = "dict"

\* the lines connection c has passed to json.loads, in order
Taken(c) == [i \in 1..Len(log[c]) |-> log[c][i].line]

\* the response frames of connection c, written or about to be written
Responses(c) == IF pc[c] = "send" THEN Append(out[c], response[c]) ELSE out[c]

(***************************************************************************)
(* C1: a response carries the id of the request line it answers (null when *)
(* the request has no id member), and the response to a line that fails    *)
(* JSON decoding carries id null; success and failure responses alike.     *)
(***************************************************************************)
C1_ResponseCarriesRequestId ==
    \A c \in Conns : \A i \in 1..Len(Responses(c)) :
        Responses(c)[i].id =
            IF DecodesToObject(Taken(c)[i]) THEN IdOfLine(Taken(c)[i]) ELSE None

\* a success with id "1" and then a failure with id "2" were written
C1_Witness ==
    \E c \in Conns :
        /\ Len(out[c]) = 2
        /\ out[c][1].id = "1" /\ out[c][1].success
        /\ out[c][2].id = "2" /\ ~out[c][2].success

(***************************************************************************)
(* C2: when a whitelist is configured and handle() is called with a        *)
(* command name that is not in it, the call fails with the permission      *)
(* error, whether or not the name is registered; the registry is not       *)
(* consulted and no handler body runs.                                     *)
(***************************************************************************)
\* handle() was called for log entry e with a command name
Dispatched(e) ==
    /\ e.decode = "dict"
    /\ Hashable(CommandOfLine(e.line))
    /\ e.p.kind # "UndoPushError"

ExcludedByWhitelist(name) ==
    TOOL_WHITELIST.configured /\ name \notin TOOL_WHITELIST.names

C2_WhitelistDenialWins ==
    \A c \in Conns : \A i \in 1..Len(log[c]) :
        LET e == log[c][i]
        IN  (Dispatched(e) /\ ExcludedByWhitelist(CommandOfLine(e.line)))
            => /\ e.p.kind = "PermissionError"
               /\ ~e.p.consulted
               /\ ~e.p.ran
               /\ ~e.p.response.success
               /\ e.p.response.error[1] = "not in the tool whitelist"

\* a registered name and an unregistered one were both refused
C2_Witness ==
    \E c \in Conns : \E i, j \in 1..Len(log[c]) :
        /\ Dispatched(log[c][i]) /\ Dispatched(log[c][j])
        /\ CommandOfLine(log[c][i].line) \in Handlers
        /\ CommandOfLine(log[c][j].line) \notin Handlers
        /\ log[c][i].p.kind = "PermissionError"
        /\ log[c][j].p.kind = "PermissionError"

(***************************************************************************)
(* C3: when no whitelist is configured or the name is in the whitelist,    *)
(* dispatching a name that is not registered (the empty name of a request  *)
(* without a command member included) fails with the unknown-command error *)
(* and runs no handler; that error is never the outcome for a name the     *)
(* whitelist excludes.                                                     *)
(***************************************************************************)
C3_UnknownCommandAfterWhitelist ==
    \A c \in Conns : \A i \in 1..Len(log[c]) :
        LET e == log[c][i]
            name == CommandOfLine(e.line)
        IN  Dispatched(e) =>
              /\ (~ExcludedByWhitelist(name) /\ name \notin Handlers)
                    => /\ e.p.kind = "ValueError"
                       /\ ~e.p.ran
                       /\ ~e.p.response.success
                       /\ e.p.response.error = <<"Unknown command", name>>
              /\ e.p.kind = "ValueError" => ~ExcludedByWhitelist(name)

\* under a whitelist, a name it admits was unknown, after a request with the
\* empty name was refused
C3_Witness ==
    \E c \in Conns :
        /\ TOOL_WHITELIST.configured
        /\ Len(log[c]) = 2
        /\ CommandOfLine(log[c][1].line) = ""
        /\ log[c][1].p.kind = "PermissionError"
        /\ CommandOfLine(log[c][2].line) = "bogus.cmd"
        /\ log[c][2].p.kind = "ValueError"

(***************************************************************************)
(* C4: while a connection is served, exactly one response frame is written *)
(* for each line that decodes to a JSON object, the responses are in the   *)
(* order the lines arrived, and the response to a line is written before   *)
(* the next line is taken from the buffer and before more bytes are read.  *)
(* (A sendall that raises OSError ends the connection with its last        *)
(* response unwritten.)                                                    *)
(***************************************************************************)
\* the response the server built for log entry e
Built(e) == IF e.decode = "dict" THEN e.p.response ELSE InvalidJson

C4_OneResponsePerRequestInOrder ==
    \A c \in Conns :
        \* the frames written answer the first lines taken, in their order
        /\ Len(out[c]) <= Len(log[c])
        /\ \A i \in 1..Len(out[c]) : out[c][i] = Built(log[c][i])
        \* which are the first non-blank lines of the stream, in their order
        /\ IsPrefix(Taken(c), NonBlankLines(stream[c]))
        \* no line is taken, and no byte read, with a response outstanding
        /\ pc[c] \in {"loop", "recv", "lines"} => Len(out[c]) = Len(log[c])
        /\ pc[c] = "send" =>
              /\ Len(out[c]) = Len(log[c]) - 1
              /\ response[c] = Built(log[c][Len(log[c])])
        \* a connection ends with at most its last line unanswered, and then
        \* not by reaching the end of the stream or a stop
        /\ pc[c] = "closed" =>
              /\ Len(out[c]) >= Len(log[c]) - 1
              /\ closed_by[c] \in {"eof", "stopped"} => Len(out[c]) = Len(log[c])
              /\ Len(out[c]) < Len(log[c]) /\ DecodesToObject(log[c][Len(log[c])].line)
                    => closed_by[c] = "oserror"

\* two requests that arrived in one read were both answered, in order, and
\* the thread is back at its read
C4_Witness ==
    \E c \in Conns :
        /\ pc[c] = "recv"
        /\ Len(out[c]) = 2
        /\ DecodesToObject(log[c][1].line) /\ DecodesToObject(log[c][2].line)
        /\ out[c][1].id = "2" /\ out[c][2].id = "1"
        /\ ~carried[c]

(***************************************************************************)
(* C5: the server closes a serving connection only at the end of the       *)
(* stream or on a socket I/O error (or when it was stopped): whatever a    *)
(* received line holds, and whatever fails while it is decoded, gated or   *)
(* handled, the connection stays open and a {success: false, error}        *)
(* response is written.                                                    *)
(***************************************************************************)
C5_ClosedOnlyByEofOrIoError ==
    \A c \in Conns :
        /\ closed_by[c] \in {"open", "eof", "oserror", "stopped"}
        /\ \A i \in 1..Len(out[c]) :
              (~DecodesToObject(log[c][i].line) \/ log[c][i].p.kind # "result")
                  => ~out[c][i].success /\ "error" \in DOMAIN out[c][i]

(***************************************************************************)
(* C6: a line that is not decodable JSON gets exactly one response, with   *)
(* id null, success false and an error string, and the connection stays    *)
(* open for the lines that follow it.                                      *)
(***************************************************************************)
NotDecodable(line) ==
    JsonLoads(line).kind \in {"JSONDecodeError", "UnicodeDecodeError"}

C6_UndecodableLineAnswered ==
    \A c \in Conns : \A i \in 1..Len(log[c]) :
        NotDecodable(log[c][i].line) =>
            /\ ~(i = Len(log[c]) /\ closed_by[c] = "exception")
            /\ i <= Len(out[c]) => out[c][i] = InvalidJson

(***************************************************************************)
(* C7: framing does not depend on how the stream is cut into reads.  The   *)
(* lines passed on are non-blank newline-terminated lines of the bytes     *)
(* received, each once and in stream order; whenever the thread is back at *)
(* its read they are all of them, and the buffer holds exactly the bytes   *)
(* after the last newline.  Blank lines get no response.                   *)
(***************************************************************************)
C7_FramingIndependentOfReads ==
    \A c \in Conns :
        /\ IsPrefix(Taken(c), NonBlankLines(stream[c]))
        /\ pc[c] \in {"loop", "recv"} =>
              /\ Taken(c) = NonBlankLines(stream[c])
              /\ buffer[c] = Unterminated(stream[c])
        /\ pc[c] \in {"lines", "send"} =>
              \E n \in 0..Len(stream[c]) :
                  /\ n = 0 \/ stream[c][n] = NL
                  /\ buffer[c] = SubSeq(stream[c], n + 1, Len(stream[c]))
                  /\ Taken(c) = NonBlankLines(SubSeq(stream[c], 1, n))
        /\ Len(Responses(c)) <= Len(Taken(c))

\* a request that came in more than one read was passed on once and
\* answered, after a blank line that was not
C7_Witness ==
    \E c \in Conns :
        /\ carried[c]
        /\ pc[c] = "recv"
        /\ Len(TerminatedLines(stream[c])) = 2
        /\ Len(log[c]) = 1 /\ Len(out[c]) = 1
        /\ DecodesToObject(log[c][1].line)

(***************************************************************************)
(* C8: with safe mode enabled the path check accepts a path if and only if *)
(* its normalized absolute form is an allowed root or lies below an        *)
(* allowed root by whole path segments.                                    *)
(***************************************************************************)
WithSep(root) ==
    IF root # <<>> /\ root[Len(root)] = Sep THEN root ELSE root \o <<Sep>>

Below(abs_path, root) ==
    abs_path = root \/ StartsWith(abs_path, WithSep(root))

C8_AcceptsIffBelowAllowedRoot ==
    (SAFE_MODE /\ verdict # "none") =>
        (verdict = "returned" <=>
            \E i \in DOMAIN ALLOWED_PATHS :
                Below(Abspath(BpyAbspath(checked_path)), Abspath(ALLOWED_PATHS[i])))

(***************************************************************************)
(* C9: at most one request is in flight on a BlenderConnection.  A call    *)
(* that has written its request frame and has not yet read a response      *)
(* frame holds the lock, and no other call is between its write and its    *)
(* read.                                                                   *)
(***************************************************************************)
InFlight == {k \in Tasks : task[k].pc \in {"drain", "read"}}

C9_OneRequestInFlight ==
    /\ Cardinality(InFlight) <= 1
    /\ \A k \in InFlight : lock = k

\* one call waits for its response while another call on the same
\* connection is held back at the lock
C9_Witness ==
    \E k, j \in Tasks :
        /\ task[k].pc = "read"
        /\ task[j].pc = "waiting"
        /\ task[k].rconn = writer
        /\ c2s[writer] = <<>>

(***************************************************************************)
(* C10: a call that returns a result, or raises the error of a response,   *)
(* has read the response line that carries its own correlation id.         *)
(***************************************************************************)
C10_ReadsOwnResponse ==
    \A k \in Tasks :
        task[k].outcome \in {"result", "RuntimeError"} =>
            task[k].read_id = task[k].id

(***************************************************************************)
(* C11: a send_command call never writes its request on a client that has *)
(* no connection: a call that finds no writer when it is about to write    *)
(* connects first, so no call ends for want of a writer.                   *)
(***************************************************************************)
C11_ConnectsBeforeWriting ==
    \A k \in Tasks : task[k].outcome # "AttributeError"

(***************************************************************************)
(* C12: a call whose write, drain or read fails, or whose read meets the   *)
(* end of the stream, raises ConnectionError and leaves both handles       *)
(* dropped and the lock released; a call that starts on a client with no   *)
(* writer opens a connection.                                              *)
(***************************************************************************)
\* the call of task k ends in this step
EndsNow(k) == task[k].pc # "idle" /\ task'[k].pc = "idle"

C13_FailureResponseKeepsConnection ==
    [][/\ \A k \in Tasks :
            /\ (EndsNow(k) /\ task'[k].outcome # "ConnectionError") =>
                  /\ writer' = writer /\ reader' = reader
            /\ (EndsNow(k) /\ task'[k].read_id # 0 /\ task[k].pc = "read") =>
                  LET h == Head(s2c[task[k].rconn])
                  IN  (h.kind = "line" /\ ~h.success) <=>
                          task'[k].outcome = "RuntimeError"
            /\ (EndsNow(k) /\ task'[k].outcome = "RuntimeError") =>
                  /\ writer' # 0 /\ reader' # 0
                  /\ task'[k].read_id = Head(s2c[task[k].rconn]).id
            /\ (task[k].pc = "idle" /\ task'[k].pc # "idle" /\ writer # 0) =>
                  task'[k].pc # "connecting"
       /\ (writer' = 0 /\ writer # 0) =>
            \E k \in Tasks : EndsNow(k) /\ task'[k].outcome = "ConnectionError"]_vars

\* a call failed on a response with success false and the next call is
\* under way on the same connection, the only one opened
C13_Witness ==
    \E k, j \in Tasks :
        /\ task[k].pc = "idle" /\ task[k].outcome = "RuntimeError"
        /\ task[k].read_id = task[k].id
        /\ task[j].pc = "read" /\ task[j].id > task[k].id
        /\ opened = 1 /\ writer = 1 /\ task[j].rconn = 1

(***************************************************************************)
(* C14: a connect() that fails raises its OSError to the caller, assigns   *)
(* no handle, writes nothing and does not take the lock; a later call      *)
(* connects again.                                                         *)
(***************************************************************************)
C14_FailedConnectLeavesDisconnected ==
    [][\A k \in Tasks :
          (task[k].pc = "connecting" /\ task'[k].pc = "idle") =>
              /\ task'[k].outcome = "OSError"
              /\ writer' = writer /\ reader' = reader
              /\ lock' = lock /\ lock' # k
              /\ c2s' = c2s /\ opened' = opened]_vars

\* a connect failed on a client that is still disconnected, its lock free,
\* and a later call is trying again
C14_Witness ==
    \E k, j \in Tasks :
        /\ task[k].pc = "idle" /\ task[k].outcome = "OSError"
        /\ writer = 0 /\ reader = 0 /\ lock = 0
        /\ task[j].pc = "connecting" /\ task[j].id > task[k].id

(***************************************************************************)
(* C15: every response frame written has exactly one of result and error:  *)
(* result if and only if success is true, error if and only if success is  *)
(* false, and then error is the message of the failure the line met.       *)
(***************************************************************************)
C15_ResultXorError ==
    \A c \in Conns : \A i \in 1..Len(out[c]) :
        LET f == out[c][i]
            e == log[c][i]
        IN  /\ DOMAIN f = IF f.success THEN {"id", "success", "result"}
                                       ELSE {"id", "success", "error"}
            /\ f.success <=> (e.decode = "dict" /\ e.p.kind = "result")
            /\ ~f.success =>
                  f.error = IF e.decode = "dict"
                            THEN ErrorMessage(e.p.kind, e.p.command)
                            ELSE <<"Invalid JSON">>

\* a connection was sent a success frame and then the failure of a handler
C15_Witness ==
    \E c \in Conns :
        /\ Len(out[c]) = 2
        /\ out[c][1].success /\ "result" \in DOMAIN out[c][1]
        /\ ~out[c][2].success /\ log[c][2].decode = "dict"
        /\ log[c][2].p.kind = "HandlerError"

(***************************************************************************)
(* C16: for a state-mutating command that is allowed and registered, a     *)
(* failure of the undo push does not keep the handler from running: the    *)
(* handler is entered and the response is the handler's result or failure. *)
(***************************************************************************)
C16_UndoPushFailureDoesNotBlock ==
    \A c \in Conns : \A i \in 1..Len(log[c]) :
        LET e == log[c][i]
        IN  (/\ e.decode = "dict"
             /\ e.p.undo_push
             /\ ~WhitelistDenies(e.p.command)
             /\ e.p.command \in Handlers) =>
                /\ e.p.ran
                /\ e.p.kind \in {"result", "HandlerError"}

(***************************************************************************)
(* C17: the undo push is requested only for a command that has passed the  *)
(* whitelist check and resolved to a registered handler: a request that is *)
(* refused with PermissionError or "Unknown command" has pushed no undo    *)
(* step.                                                                   *)
(***************************************************************************)
C17_CheckpointAfterGateAndLookup ==
    \A c \in Conns : \A i \in 1..Len(log[c]) :
        LET e == log[c][i]
        IN  (e.decode = "dict" /\ e.p.undo_push) =>
                /\ ~WhitelistDenies(e.p.command)
                /\ e.p.command \in Handlers
                /\ e.p.kind \notin {"PermissionError", "ValueError"}

(***************************************************************************)
(* C18: start() on a server that is listening is a no-op: it returns with  *)
(* the flag, the socket, the accept loop and every connection as they      *)
(* were, and no second socket or accept loop exists.                       *)
(***************************************************************************)
Listening ==
    /\ server_socket # 0
    /\ sock_state[server_socket] = "open"

OpenSockets == {x \in Sockets : sock_state[x] = "open"}
LiveLoops == {l \in Loops : Live(l)}

C18_StartOnListeningIsNoOp ==
    [][(StartServer /\ Listening) =>
          /\ last_call' = "start: no-op"
          /\ UNCHANGED <<running, server_socket, thread, sock_state, loop_pc,
                         loop_sock, stop_pc>>
          /\ UNCHANGED conn_vars
          /\ Cardinality(OpenSockets) = 1
          /\ Cardinality(LiveLoops) = 1]_vars

\* start() has returned early on a server that listens, with its one socket,
\* its one accept loop and a connection that is being served
C18_Witness ==
    /\ last_call = "start: no-op"
    /\ Listening /\ running
    /\ Cardinality(OpenSockets) = 1
    /\ Cardinality(LiveLoops) = 1
    /\ \E c \in Conns : pc[c] = "recv"

(***************************************************************************)
(* C19: once stop() has returned on a server that listened, the flag is    *)
(* false, the listening socket is closed and released and the accept loop  *)
(* has ended; no connection is accepted while the server is stopped; and   *)
(* a stop() that has set the flag does return, wherever the accept loop    *)
(* was.                                                                    *)
(***************************************************************************)
StopReturned == last_call = "stop" /\ stop_pc = "idle"

C19_StopEndsAcceptLoop ==
    /\ [](StopReturned =>
            /\ ~running
            /\ server_socket = 0 /\ thread = 0
            /\ \A x \in Sockets : sock_state[x] \in {"none", "closed"}
            /\ \A l \in Loops : ~Live(l))
    /\ [][StopReturned => \A c \in Conns : pc[c] = "none" => pc'[c] = "none"]_vars
    /\ (stop_pc = "close") ~> StopReturned

\* stop() has returned; the accept loop had been waiting in accept() on the
\* socket that is now closed, after it had accepted a connection
C19_Witness ==
    /\ StopReturned
    /\ \E l \in Loops :
          /\ loop_pc[l] \in {"done", "died"}
          /\ loop_sock[l] # 0
          /\ sock_state[loop_sock[l]] = "closed"
    /\ \E c \in Conns : pc[c] # "none"

(***************************************************************************)
(* C20: a failure while one connection is served (an error of recv or of   *)
(* sendall, or any other exception) closes that connection only: the step  *)
(* leaves every other connection, the server and the accept loop as they   *)
(* were.                                                                   *)
(***************************************************************************)
Failed(c) == closed_by[c] \in {"oserror", "exception"}

C20_FailureClosesOneConnection ==
    [][\A c \in Conns :
          (~Failed(c) /\ Failed(c)') =>
              /\ pc'[c] = "closed"
              /\ \A d \in Conns \ {c} :
                    /\ pc'[d] = pc[d] /\ closed_by'[d] = closed_by[d]
                    /\ buffer'[d] = buffer[d] /\ pending'[d] = pending[d]
                    /\ response'[d] = response[d] /\ out'[d] = out[d]
                    /\ log'[d] = log[d] /\ stream'[d] = stream[d]
              /\ UNCHANGED server_vars]_vars

\* one connection was closed by an exception while the other is being
\* served and the accept loop waits for the next connection
C20_Witness ==
    \E c, d \in Conns :
        /\ closed_by[c] = "exception"
        /\ pc[d] = "recv" /\ closed_by[d] = "open"
        /\ running /\ Listening
        /\ \E l \in Loops : loop_pc[l] = "blocked"

(***************************************************************************)
(* C21: while the server listens, the accept loop does not wait for any    *)
(* connection: whatever the connections' threads do or fail to do, a       *)
(* further connection is eventually accepted, and it gets a thread of its  *)
(* own while the others are left as they are.                              *)
(***************************************************************************)
Accepts(c) == pc[c] = "none" /\ pc'[c] # "none"

C21_AcceptLoopNeverBlocked ==
    /\ [][\A c \in Conns :
            Accepts(c) =>
                /\ pc'[c] = "loop"
                /\ \A d \in Conns \ {c} : pc'[d] = pc[d]]_vars
    /\ (running /\ Listening /\ FreeConns # {}) ~> (FreeConns = {} \/ ~running)

\* a second connection was accepted and is served while the first one is
\* inside the handling of a request that has arrived
C21_Witness ==
    \E c, d \in Conns :
        /\ pc[c] = "lines" /\ Find(buffer[c], NL) # 0
        /\ pc[d] = "recv"
        /\ running /\ Listening

(***************************************************************************)
(* C22: in safe mode, starting from an empty root list, the default root   *)
(* is seeded at most once: the list never holds more than one entry,       *)
(* however the path checks of different threads interleave.                *)
(***************************************************************************)
C22_SeededAtMostOnce ==
    Len(ALLOWED_PATHS) <= 1

(***************************************************************************)
(* C23: the handler registry is fixed after construction.                  *)
(***************************************************************************)
\* lines dispatched so far that ended the given way, over all connections
DispatchesEnding(kind) ==
    {<<c, i>> \in Conns \X (1..MaxFrames) :
        /\ i <= Len(log[c])
        /\ log[c][i].decode = "dict"
        /\ log[c][i].p.kind = kind}

\* C23: after any sequence of dispatches, successful or failing, the
\* registry holds the names _register_builtins bound, each bound to the
\* handler it was bound to right after initialization
C23_RegistryFixed == handlers = Registered

\* a dispatch succeeded, another failed on an unknown name after the lookup,
\* and the registry is the initial one
C23_Witness ==
    /\ DispatchesEnding("result") # {}
    /\ DispatchesEnding("ValueError") # {}
    /\ handlers = Registered

(***************************************************************************)
(* C24: a client instance owns at most one open connection.                *)
(***************************************************************************)
\* the sockets the client opened and that are still open at its end
OpenAtClient == {c \in Connections : sock[c] = "open"}

\* C24: no second socket is opened while one is open, and every open socket
\* the client opened is the one its handles refer to
C24_AtMostOneOpenConnection ==
    /\ Cardinality(OpenAtClient) <= 1
    /\ \A c \in OpenAtClient : c = writer

(***************************************************************************)
(* C25: one tool for each registered command.                              *)
(***************************************************************************)
\* the commands some tool forwards to
ForwardedCommands == {ToolCommand(tool) : tool \in ToolNames}

\* C25: the adapter exposes exactly 22 tools, one for each of the 22 names
\* of the add-on's registry, and a tool that is invoked forwards to its own
\* registered command
C25_OneToolPerRegisteredCommand ==
    /\ Cardinality(ToolNames) = 22
    /\ Cardinality(DOMAIN handlers) = 22
    /\ ForwardedCommands = DOMAIN handlers
    /\ \A t1, t2 \in ToolNames : ToolCommand(t1) = ToolCommand(t2) => t1 = t2
    /\ tool_call.tool # "" =>
            /\ tool_call.command = ToolCommand(tool_call.tool)
            /\ tool_call.command \in DOMAIN handlers

(***************************************************************************)
(* C26: the undo push is requested exactly once, before the handler, for   *)
(* the commands of MUTATION_COMMANDS and for no other command.             *)
(***************************************************************************)
\* the places of a host operation in the sequence of those asked for
Places(steps, op) == {n \in 1..Len(steps) : steps[n] = op}

\* steps are those of a request with this command, as the claim has them
CheckpointedOnce(command, steps) ==
    IF command \in MUTATION_COMMANDS
    THEN /\ Cardinality(Places(steps, "undo_push")) = 1
         /\ \A n \in Places(steps, "handler") :
                \A m \in Places(steps, "undo_push") : m < n
    ELSE Places(steps, "undo_push") = {}

\* C26: every request passed to _process_request with a name of
\* MUTATION_COMMANDS asks for one undo push, before its handler is entered,
\* and a request with any other command asks for none; the same holds of
\* every registered name under either outcome of the push and the handler
C26_CheckpointOncePerMutation ==
    /\ \A c \in Conns : \A i \in 1..Len(log[c]) :
            log[c][i].decode = "dict" =>
                CheckpointedOnce(log[c][i].p.command, log[c][i].p.steps)
    /\ \A command \in DOMAIN handlers \cup {"", "bogus.cmd"} :
            \A undoOk, handlerOk \in BOOLEAN :
                CheckpointedOnce(command,
                    HostCalls(command, undoOk, Handle(command, handlerOk)))

\* a mutating request pushed and then ran its handler, and a request with a
\* command outside MUTATION_COMMANDS ran its handler without a push
C26_Witness ==
    \E c \in Conns : \E i, j \in 1..Len(log[c]) :
        /\ log[c][i].decode = "dict" /\ log[c][j].decode = "dict"
        /\ log[c][i].p.command \in MUTATION_COMMANDS
        /\ log[c][i].p.steps = <<"undo_push", "handler">>
        /\ log[c][j].p.command \in DOMAIN handlers \ MUTATION_COMMANDS
        /\ log[c][j].p.steps = <<"handler">>

(***************************************************************************)
(* C27: what a path check does to the security configuration.              *)
(***************************************************************************)
\* a step in which a _validate_filepath call ends
CheckEnds == verdict = "none" /\ verdict' # "none"

\* C27: a path check leaves SAFE_MODE and TOOL_WHITELIST alone and changes
\* ALLOWED_PATHS only from the empty list, with safe mode on, to the list of
\* the default root alone; with safe mode off the path passes and is
\* returned as it was given; a list that is not empty is left as it was,
\* whether the path is accepted or denied
C27_CheckOnlySeedsEmptyList ==
    [][CheckEnds =>
        /\ SAFE_MODE' = SAFE_MODE /\ TOOL_WHITELIST' = TOOL_WHITELIST
        /\ ALLOWED_PATHS' # ALLOWED_PATHS =>
                /\ SAFE_MODE /\ ALLOWED_PATHS = <<>>
                /\ ALLOWED_PATHS' = <<BlendDir>>
        /\ ~SAFE_MODE =>
                /\ verdict' = "returned"
                /\ ValidateFilepath(checked_path').path = checked_path'
                /\ ALLOWED_PATHS' = ALLOWED_PATHS
        /\ ALLOWED_PATHS # <<>> => ALLOWED_PATHS' = ALLOWED_PATHS
        /\ \A k \in 1..Len(ALLOWED_PATHS) :
                k <= Len(ALLOWED_PATHS') /\ ALLOWED_PATHS'[k] = ALLOWED_PATHS[k]
      ]_vars

\* a check has denied a path against a list of two roots, which is a list
\* the server was configured with
C27_Witness ==
    /\ SAFE_MODE
    /\ verdict = "PermissionError"
    /\ Len(ALLOWED_PATHS) = 2
    /\ ALLOWED_PATHS \in RootLists

(***************************************************************************)
(* C28: a stopped server dispatches nothing.                               *)
(***************************************************************************)
\* connection c passes a request to _process_request in this step
Dispatches(c) ==
    /\ Len(log'[c]) = Len(log[c]) + 1
    /\ log'[c][Len(log'[c])].decode = "dict"

\* C28: once stop() has returned, and until the server is started again, no
\* connection that is still open passes a request to _process_request
C28_NoDispatchAfterStop ==
    [][(StopReturned /\ ~running) => \A c \in Conns : ~Dispatches(c)]_vars

(***************************************************************************)
(* C29: the running flag stands for a listening server.                    *)
(***************************************************************************)
\* C29: whenever no start() or stop() call is under way, the flag is true
\* only if the server holds a bound, listening socket and has started an
\* accept loop; a start() that ended with the OSError of bind or listen has
\* left the flag false
C29_RunningOnlyWhileListening ==
    /\ (running /\ stop_pc = "idle") => (Listening /\ thread # 0)
    /\ last_call = "start: OSError" => ~running

(***************************************************************************)
(* C30: the client's lock is never held forever.                           *)
(***************************************************************************)
\* C30: with an add-on that answers every request it receives or closes the
\* connection, every send_command call that has started ends, by returning
\* or raising, and a lock that is held is released
C30_LockNeverHeldForever ==
    /\ \A k \in Tasks : (task[k].pc # "idle") ~> (task[k].pc = "idle")
    /\ (lock # 0) ~> (lock = 0)

(***************************************************************************)
(* C31: the two handles of the client are set and cleared together.        *)
(***************************************************************************)
\* C31: between any two steps of the client's operations the reader is unset
\* exactly when the writer is unset, and when they are set they are the two
\* ends of one connection
C31_HandlesSetTogether ==
    /\ reader = 0 <=> writer = 0
    /\ reader # 0 => reader = writer

\* disconnect() has cleared the handles of a second connection: the first
\* was dropped by the failure path of send_command, a later call connected
\* again
C31_Witness ==
    /\ lifespan = "ended"
    /\ opened = 2
    /\ sock[2] = "closed"
    /\ reader = 0 /\ writer = 0
    /\ \E k \in Tasks : task[k].outcome = "ConnectionError"

====
